---- MODULE Spec2Model ----
(***************************************************************************)
(* Model of the instance-principal credential cache of ocigenai            *)
(* (internal/auth/auth.go): Authenticator.getCredentials with its          *)
(* sync.RWMutex, the metadata fetch, the PEM parsers and the cache expiry  *)
(* rule, and Authenticator.SignRequest with signRequest and                *)
(* buildSigningString.                                                     *)
(*                                                                         *)
(* Time is counted in quarters of an hour, so that                         *)
(* defaultCacheBuffer (1h) is 4 and minCacheBuffer (30m) is 2.             *)
(* Every caller is one goroutine making one getCredentials call.           *)
(* Spec is the cache under concurrent callers; SignSpec is one goroutine   *)
(* signing requests, with a wall clock in half seconds; PluginSpec is      *)
(* Proxy.ServeHTTP (plugin.go) serving requests and signing those it       *)
(* processes; PureSpec applies the parsers, the metadata GET, New and      *)
(* ToOracleCloudRequest each to one input; FairSpec is Spec with the       *)
(* goroutines scheduled fairly; ProviderSpec is the signer that gets key   *)
(* and key ID from instancePrincipalKeyProvider.                           *)
(***************************************************************************)
EXTENDS Integers, Sequences, FiniteSets, TLC

\* ------------------------------------------------------------------ bounds
NumCallers == 3
MaxTime == 3
MaxNotAfter == 6
MaxWall == 3
MaxSignCalls == 2
MaxServeCalls == 2

\* ------------------------------------------------------- program constants
defaultCacheBuffer == 4
minCacheBuffer == 2
StatusOK == 200
ZeroTime == 0

Callers == 1..NumCallers
NoCaller == 0
Times == (ZeroTime + 1)..MaxTime

VARIABLES now, cache, readers, writer, pc, result, fetchCount,
          hist, batch, lastRet,
          req, orig, wall, sign,
          call, plugin

\* The state of one SignRequest call: the request, the request as it was
\* passed, the wall clock and the call's position and locals.
signVars == <<req, orig, wall, sign>>

\* The state of the concurrent getCredentials callers.
callVars == <<readers, writer, pc, result, hist, batch, lastRet>>

\* The last application of one of the program's functions to an input, and
\* the state of one Proxy.ServeHTTP call.
handlerVars == <<call, plugin>>

vars == <<now, cache, readers, writer, pc, result, fetchCount, hist, batch, lastRet,
          req, orig, wall, sign, call, plugin>>

\* ------------------------------------------------------------- PEM inputs
\* A PEM document is abstracted to what the parsers look at.
\*   pem   : pem.Decode finds a block
\*   enc   : the DER encoding of the block ("pkcs1", "pkcs8" or "junk")
\*   alg   : key algorithm inside a PKCS#8 wrapper
\*   N     : modulus of an RSA key
KeyPem(pem, enc, alg, n) == [pem |-> pem, enc |-> enc, alg |-> alg, N |-> n]

\* The key documents the metadata service may serve.
KeyPems ==
    { KeyPem(TRUE, "pkcs8", "rsa", 11),
      KeyPem(TRUE, "pkcs8", "ec", 0),
      KeyPem(TRUE, "junk", "rsa", 0),
      KeyPem(FALSE, "junk", "rsa", 0) }

OIDUniqueIdentifier == "2.5.4.45"
OIDCommonName == "2.5.4.3"

\*   names : cert.Subject.Names, a sequence of [type, str, value]
\*           (str: the value is a Go string)
CertPem(pem, der, names, serial, notAfter) ==
    [pem |-> pem, der |-> der, names |-> names, serial |-> serial,
     notAfter |-> notAfter]

Attr(type, str, value) == [type |-> type, str |-> str, value |-> value]

\* A subject with a uniqueIdentifier and one without.
SubjectWithUID ==
    << Attr(OIDCommonName, TRUE, "instance"),
       Attr(OIDUniqueIdentifier, TRUE, "ocid1.instance.a") >>

SubjectWithoutUID == << Attr(OIDCommonName, TRUE, "instance") >>

\* Expirations the served certificates carry: an early one (a quarter of an
\* hour after the start) and the two latest ones.
NotAfters == { ZeroTime + 2, MaxNotAfter - 1, MaxNotAfter }

\* The certificates the metadata service may serve: one for each
\* expiration, the one expiring last without a uniqueIdentifier, and two
\* documents that are no certificate.
CertPems ==
    { CertPem(TRUE, TRUE,
              IF na = MaxNotAfter THEN SubjectWithoutUID ELSE SubjectWithUID,
              42, na) : na \in NotAfters }
    \cup { CertPem(TRUE, FALSE, << >>, 0, 0), CertPem(FALSE, FALSE, << >>, 0, 0) }

IntermediatePems == { "intermediate" }

\* ------------------------------------------------------ big.Int.String()
Digit(d) == CASE d = 0 -> "0" [] d = 1 -> "1" [] d = 2 -> "2" [] d = 3 -> "3"
              [] d = 4 -> "4" [] d = 5 -> "5" [] d = 6 -> "6" [] d = 7 -> "7"
              [] d = 8 -> "8" [] d = 9 -> "9"

RECURSIVE Decimal(_)
Decimal(n) == IF n < 10 THEN Digit(n) ELSE Decimal(n \div 10) \o Digit(n % 10)

\* --------------------------------------------------------- parsePrivateKey
NilKey == [ptr |-> 0, N |-> 0]

parsePrivateKeyPKCS1Only(keyPem, id) ==
    IF ~keyPem.pem
    THEN [err |-> "failed to decode PEM block", key |-> NilKey, parsers |-> << >>]
    ELSE IF keyPem.enc = "pkcs1"
    THEN [err |-> "", key |-> [ptr |-> id, N |-> keyPem.N],
          parsers |-> << "ParsePKCS1PrivateKey" >>]
    ELSE [err |-> "failed to parse private key", key |-> NilKey,
          parsers |-> << "ParsePKCS1PrivateKey" >>]

\* id is the identity of the *rsa.PrivateKey the parser allocates; parsers
\* lists the x509 parsers called, in order.
parsePrivateKey(keyPem, id) ==
    IF ~keyPem.pem
    THEN [err |-> "failed to decode PEM block", key |-> NilKey, parsers |-> << >>]
    ELSE IF keyPem.enc = "pkcs1"
    THEN [err |-> "", key |-> [ptr |-> id, N |-> keyPem.N],
          parsers |-> << "ParsePKCS1PrivateKey" >>]
    ELSE IF keyPem.enc # "pkcs8"
    THEN [err |-> "failed to parse private key", key |-> NilKey,
          parsers |-> << "ParsePKCS1PrivateKey", "ParsePKCS8PrivateKey" >>]
    ELSE IF keyPem.alg # "rsa"
    THEN [err |-> "private key is not RSA", key |-> NilKey,
          parsers |-> << "ParsePKCS1PrivateKey", "ParsePKCS8PrivateKey" >>]
    ELSE [err |-> "", key |-> [ptr |-> id, N |-> keyPem.N],
          parsers |-> << "ParsePKCS1PrivateKey", "ParsePKCS8PrivateKey" >>]

\* ---------------------------------------------- extractKeyIDAndExpiration
\* The loop over cert.Subject.Names: the first uniqueIdentifier attribute
\* ends the scan; its value is taken only when it is a string.
RECURSIVE ScanNames(_, _)
ScanNames(names, i) ==
    IF i > Len(names) THEN ""
    ELSE IF names[i].type = OIDUniqueIdentifier
    THEN (IF names[i].str THEN names[i].value ELSE "")
    ELSE ScanNames(names, i + 1)

extractKeyIDAndExpirationNoFallback(certPem) ==
    IF ~certPem.pem
    THEN [err |-> "failed to decode certificate PEM", keyID |-> "", notAfter |-> ZeroTime]
    ELSE IF ~certPem.der
    THEN [err |-> "failed to parse certificate", keyID |-> "", notAfter |-> ZeroTime]
    ELSE [err |-> "", keyID |-> ScanNames(certPem.names, 1),
          notAfter |-> certPem.notAfter]

extractKeyIDAndExpiration(certPem) ==
    IF ~certPem.pem
    THEN [err |-> "failed to decode certificate PEM", keyID |-> "", notAfter |-> ZeroTime]
    ELSE IF ~certPem.der
    THEN [err |-> "failed to parse certificate", keyID |-> "", notAfter |-> ZeroTime]
    ELSE LET scanned == ScanNames(certPem.names, 1)
         IN [err |-> "",
             keyID |-> IF scanned = "" THEN Decimal(certPem.serial) ELSE scanned,
             notAfter |-> certPem.notAfter]

\* ---------------------------------------------------- fetchMetadataEndpoint
\* What the metadata service does with one GET. body is what arrives of the
\* body: all of it, or, when readOk is FALSE, the part before the break.
Response(connOk, status, readOk, body) ==
    [connOk |-> connOk, status |-> status, readOk |-> readOk, body |-> body]

\* Every body served with 200 and read completely; one body for each way
\* a request can fail (no connection, a status other than 200, a body that
\* breaks off).
Responses(bodies) ==
    LET b0 == CHOOSE x \in bodies : TRUE
    IN { Response(TRUE, StatusOK, TRUE, b) : b \in bodies }
       \cup { Response(FALSE, 0, FALSE, b0), Response(TRUE, 404, TRUE, b0),
              Response(TRUE, StatusOK, FALSE, b0) }

\* Stands for the answer to a request that is never made.
NotRequested == Response(FALSE, 0, FALSE, "")

\* The two results of fetchMetadataEndpoint. nil says that the byte slice
\* is nil. The last return is io.ReadAll's: the bytes read, which are the
\* bytes received before the break when the body breaks off, and the read
\* error if there was one.
fetchMetadataEndpoint(resp) ==
    IF ~resp.connOk THEN [err |-> TRUE, nil |-> TRUE, body |-> ""]
    ELSE IF resp.status # StatusOK THEN [err |-> TRUE, nil |-> TRUE, body |-> ""]
    ELSE [err |-> ~resp.readOk, nil |-> FALSE, body |-> resp.body]

\* http.NewRequest(http.MethodGet, url, nil) with the header the metadata
\* service requires.
MetadataRequest(url) ==
    [Method |-> "GET", URL |-> url, Authorization |-> "Bearer Oracle"]

\* ---------------------------------------------------- fetchInstanceMetadata
\* A nil *types.InstanceMetadata; the documents are Go's empty strings, in
\* which pem.Decode finds no block.
EmptyCertPem == CertPem(FALSE, FALSE, << >>, 0, 0)

EmptyKeyPem == KeyPem(FALSE, "junk", "rsa", 0)

NoMetadata ==
    [CertPem |-> EmptyCertPem, IntermediatePem |-> "", KeyPem |-> EmptyKeyPem,
     nil |-> TRUE]

fetchInstanceMetadataNoAbort(rCert, rInt, rKey) ==
    LET c == fetchMetadataEndpoint(rCert)
        i == fetchMetadataEndpoint(rInt)
        k == fetchMetadataEndpoint(rKey)
    IN IF c.err \/ i.err
       THEN [err |-> TRUE, reqs |-> << "cert.pem", "intermediate.pem" >>,
             metadata |-> NoMetadata]
       ELSE IF k.err
       THEN [err |-> TRUE, reqs |-> << "cert.pem", "intermediate.pem", "key.pem" >>,
             metadata |-> NoMetadata]
       ELSE [err |-> FALSE, reqs |-> << "cert.pem", "intermediate.pem", "key.pem" >>,
             metadata |-> [CertPem |-> c.body, IntermediatePem |-> i.body,
                           KeyPem |-> k.body, nil |-> FALSE]]

\* The three requests in order; the first failure ends the fetch.
fetchInstanceMetadata(rCert, rInt, rKey) ==
    LET c == fetchMetadataEndpoint(rCert)
        i == fetchMetadataEndpoint(rInt)
        k == fetchMetadataEndpoint(rKey)
    IN IF c.err THEN [err |-> TRUE, reqs |-> << "cert.pem" >>, metadata |-> NoMetadata]
       ELSE IF i.err
       THEN [err |-> TRUE, reqs |-> << "cert.pem", "intermediate.pem" >>,
             metadata |-> NoMetadata]
       ELSE IF k.err
       THEN [err |-> TRUE, reqs |-> << "cert.pem", "intermediate.pem", "key.pem" >>,
             metadata |-> NoMetadata]
       ELSE [err |-> FALSE, reqs |-> << "cert.pem", "intermediate.pem", "key.pem" >>,
             metadata |-> [CertPem |-> c.body, IntermediatePem |-> i.body,
                           KeyPem |-> k.body, nil |-> FALSE]]

\* ------------------------------------------------------------------ cache
EmptyCache == [metadata |-> NoMetadata, privateKey |-> NilKey, keyID |-> "",
               expiresAt |-> ZeroTime]

FreshInclusive(c, t) == ~c.metadata.nil /\ t <= c.expiresAt

FreshInverted(c, t) == ~c.metadata.nil /\ c.expiresAt < t

\* a.cache.metadata != nil && time.Now().Before(a.cache.expiresAt)
Fresh(c, t) == ~c.metadata.nil /\ t < c.expiresAt

\* The check under the read lock and the one under the write lock.
FirstCheck(t) == Fresh(cache, t)

SecondCheckSkipped(t) == FALSE

SecondCheck(t) == Fresh(cache, t)

CacheExpiryInclusive(notAfter, t) ==
    IF notAfter - defaultCacheBuffer <= t
    THEN t + minCacheBuffer
    ELSE notAfter - defaultCacheBuffer

\* Calculate cache expiration with safety margin.
CacheExpiry(notAfter, t) ==
    IF notAfter - defaultCacheBuffer < t
    THEN t + minCacheBuffer
    ELSE notAfter - defaultCacheBuffer

refreshCachePartial(c, metadata, t, id) ==
    LET k == parsePrivateKey(metadata.KeyPem, id)
        x == extractKeyIDAndExpiration(metadata.CertPem)
    IN IF k.err # ""
       THEN [err |-> TRUE, via |-> "key_error", cache |-> c,
             privateKey |-> NilKey, keyID |-> ""]
       ELSE IF x.err # ""
       THEN [err |-> TRUE, via |-> "cert_error",
             cache |-> [c EXCEPT !.metadata = metadata, !.privateKey = k.key],
             privateKey |-> NilKey, keyID |-> ""]
       ELSE [err |-> FALSE, via |-> "refresh",
             cache |-> [metadata |-> metadata, privateKey |-> k.key,
                        keyID |-> x.keyID,
                        expiresAt |-> CacheExpiry(x.notAfter, t)],
             privateKey |-> k.key, keyID |-> x.keyID]

refreshCacheFieldByField(c, metadata, t, id) ==
    LET k == parsePrivateKey(metadata.KeyPem, id)
        x == extractKeyIDAndExpiration(metadata.CertPem)
    IN IF k.err # ""
       THEN [err |-> TRUE, via |-> "key_error", cache |-> c,
             privateKey |-> NilKey, keyID |-> ""]
       ELSE IF x.err # ""
       THEN [err |-> TRUE, via |-> "cert_error", cache |-> c,
             privateKey |-> NilKey, keyID |-> ""]
       ELSE [err |-> FALSE, via |-> "refresh",
             cache |-> [metadata |-> metadata, privateKey |-> k.key,
                        keyID |-> IF c.keyID = "" THEN x.keyID ELSE c.keyID,
                        expiresAt |-> CacheExpiry(x.notAfter, t)],
             privateKey |-> k.key, keyID |-> x.keyID]

\* refreshCache as it would be if a bundle that cannot be parsed made it fall
\* back on the bundle in the cache.
refreshCacheStaleFallback(c, metadata, t, id) ==
    LET k == parsePrivateKey(metadata.KeyPem, id)
        x == extractKeyIDAndExpiration(metadata.CertPem)
    IN IF k.err # ""
       THEN [err |-> c.metadata.nil, via |-> "key_error", cache |-> c,
             privateKey |-> c.privateKey, keyID |-> c.keyID]
       ELSE IF x.err # ""
       THEN [err |-> c.metadata.nil, via |-> "cert_error", cache |-> c,
             privateKey |-> c.privateKey, keyID |-> c.keyID]
       ELSE [err |-> FALSE, via |-> "refresh",
             cache |-> [metadata |-> metadata, privateKey |-> k.key,
                        keyID |-> x.keyID,
                        expiresAt |-> CacheExpiry(x.notAfter, t)],
             privateKey |-> k.key, keyID |-> x.keyID]

\* Lines 109-134 of getCredentials: parse the key, parse the certificate,
\* compute the expiry and store the four fields; a parse error returns
\* before anything is stored. c is the cache before, t the clock, id the
\* identity of the key object the parser allocates.
refreshCache(c, metadata, t, id) ==
    LET k == parsePrivateKey(metadata.KeyPem, id)
        x == extractKeyIDAndExpiration(metadata.CertPem)
    IN IF k.err # ""
       THEN [err |-> TRUE, via |-> "key_error", cache |-> c,
             privateKey |-> NilKey, keyID |-> ""]
       ELSE IF x.err # ""
       THEN [err |-> TRUE, via |-> "cert_error", cache |-> c,
             privateKey |-> NilKey, keyID |-> ""]
       ELSE [err |-> FALSE, via |-> "refresh",
             cache |-> [metadata |-> metadata, privateKey |-> k.key,
                        keyID |-> x.keyID,
                        expiresAt |-> CacheExpiry(x.notAfter, t)],
             privateKey |-> k.key, keyID |-> x.keyID]

\* ------------------------------------------------------------- sync.RWMutex
CanRLock == writer = NoCaller

CanLockUnguarded == TRUE

CanLock == writer = NoCaller /\ readers = {}

\* RUnlock as it would be if the read lock were kept.
RUnlockSkipped(c) == readers

\* a.cache.mu.RUnlock() by caller c: the holders of the shared lock after it.
RUnlock(c) == readers \ {c}

UnlockSkipped(c) == c

\* defer a.cache.mu.Unlock(): the holder of the exclusive lock once c has
\* returned.
Unlock(c) == NoCaller

\* ------------------------------------------------------------------ results
NoResult == [err |-> FALSE, privateKey |-> NilKey, keyID |-> ""]

Ok(privateKey, keyID) == [err |-> FALSE, privateKey |-> privateKey, keyID |-> keyID]

Failed == [err |-> TRUE, privateKey |-> NilKey, keyID |-> ""]

\* ------------------------------------------------------------------ history
\* What an observer records; the program does not read it.
\* Of every call:
\*   invokedFresh  : the cache was Fresh when the call was made
\*   invokedVer    : the cached key object when the call was made
\*   via           : the exit taken ("check1", "check2", "refresh",
\*                   "fetch_error", "key_error", "cert_error")
\*   fetched       : the call ran fetchInstanceMetadata
\*   retFresh, retVer : freshness and key object of the cache the returning
\*                   step found
\*   wrote         : the returning step changed a cache field
\*   expiry        : the expiresAt the call stored (ZeroTime: it stored none)
\*   sawFailure    : the call was waiting for the exclusive lock while
\*                   another call's refresh failed
\* batch   : the calls made since all earlier calls had returned
\* lastRet : the most recent return: the caller, the exit, the clock, the
\*           expiresAt and the certificate's NotAfter of the cache it left,
\*           and the metadata requests it made, each with what the service
\*           did with it

\* The observer's notion of a usable entry: a bundle is present and the
\* time is before cacheExpiresAt.
Usable(c, t) == ~c.metadata.nil /\ t < c.expiresAt

NoHist ==
    [invokedFresh |-> FALSE, invokedVer |-> 0, via |-> "", fetched |-> FALSE,
     retFresh |-> FALSE, retVer |-> 0, wrote |-> FALSE, expiry |-> ZeroTime,
     sawFailure |-> FALSE]

NoReturn ==
    [caller |-> NoCaller, via |-> "", time |-> ZeroTime, expiry |-> ZeroTime,
     notAfter |-> ZeroTime, reqs |-> << >>]

Done == { c \in Callers : pc[c] = "done" }

Returned(h, c, via, after) ==
    [h EXCEPT ![c].via = via,
              ![c].retFresh = Usable(cache, now),
              ![c].retVer = cache.privateKey.ptr,
              ![c].wrote = (after # cache),
              ![c].expiry = IF via = "refresh" THEN after.expiresAt ELSE ZeroTime]

\* The service served a request: it answered 200 with a complete body.
Served(resp) == resp.connOk /\ resp.status = StatusOK /\ resp.readOk

\* The log of the requests for the resources urls, answered by resps.
Requested(urls, resps) ==
    [i \in 1..Len(urls) |->
        [req |-> MetadataRequest(urls[i]), served |-> Served(resps[i])]]

Return(c, via, after, reqs) ==
    [caller |-> c, via |-> via, time |-> now, expiry |-> after.expiresAt,
     notAfter |-> after.metadata.CertPem.notAfter, reqs |-> reqs]

\* The callers queued on the exclusive lock while c holds it.
Waiters(c) == { w \in Callers : w # c /\ pc[w] = "lock" }

MarkWaiters(h, c) ==
    [w \in Callers |-> IF w \in Waiters(c) THEN [h[w] EXCEPT !.sawFailure = TRUE]
                       ELSE h[w]]

\* ------------------------------------------------------------ http.Request
\* A text whose characters matter is a sequence of pieces; the piece "\n"
\* is a line break. Method is a sequence of letters, URL.Path a sequence of
\* pieces (the decoded path), the other fields are strings, "" for a header
\* that is not set.
Request(method, path, rawQuery, host, date, authorization) ==
    [Method |-> method, Path |-> path, RawQuery |-> rawQuery,
     Host |-> host, URLHost |-> "url.example",
     Header |-> [Date |-> date, Authorization |-> authorization,
                 ContentType |-> "application/json"],
     Body |-> "{oracle}", ContentLength |-> 8]

NoRequest == Request(<< >>, << >>, "", "", "", "")

\* The plugin signs POST requests whose path ends with /chat/completions;
\* the second path is /v1%0Ax/chat/completions, decoded.
Methods == { << "P", "O", "S", "T" >> }

\* A path is cut so that /chat/completions is a piece of its own.
Paths ==
    { << "/v1", "/chat/completions" >>, << "/v1", "\n", "x", "/chat/completions" >> }

RawQueries == { "", "a=b" }

Hosts == { "", "genai.example" }

DateHeaders == { "", "Thu, 05 Jan 2014 21:31:40 GMT" }

AuthorizationHeaders == { "", "Bearer sk-client" }

Requests ==
    { Request(m, p, q, h, d, a) :
        m \in Methods, p \in Paths, q \in RawQueries, h \in Hosts,
        d \in DateHeaders, a \in AuthorizationHeaders }

\* strings.ToLower, on the letters of the methods above.
ToLower(ch) ==
    CASE ch = "P" -> "p" [] ch = "O" -> "o" [] ch = "S" -> "s" [] ch = "T" -> "t"
      [] OTHER -> ch

RECURSIVE Join(_)
Join(text) == IF text = << >> THEN "" ELSE Head(text) \o Join(Tail(text))

Lower(letters) == Join([i \in 1..Len(letters) |-> ToLower(letters[i])])

\* time.Now().UTC().Format(http.TimeFormat): the wall clock, in half
\* seconds, cut to the second.
HTTPDate(w) == "Mon, 01 Jan 2024 00:00:0" \o Decimal(w \div 2) \o " GMT"

\* ------------------------------------------------------- buildSigningString
buildSigningStringFreshDate(r, w) ==
    LET requestTarget ==
            << Lower(r.Method), " " >> \o r.Path
            \o (IF r.RawQuery # "" THEN << "?", r.RawQuery >> ELSE << >>)
        host == IF r.Host = "" THEN r.URLHost ELSE r.Host
        date == HTTPDate(w)
    IN [signingString |->
            << "(request-target): " >> \o requestTarget
            \o << "\n", "host: ", host, "\n", "date: ", date >>,
        date |-> date,
        req |-> [r EXCEPT !.Header.Date = date]]

\* The signing string at wall-clock time w, the date it carries, and the
\* request with the Date header the function may have set.
buildSigningString(r, w) ==
    LET requestTarget ==
            << Lower(r.Method), " " >> \o r.Path
            \o (IF r.RawQuery # "" THEN << "?", r.RawQuery >> ELSE << >>)
        host == IF r.Host = "" THEN r.URLHost ELSE r.Host
        date == IF r.Header.Date = "" THEN HTTPDate(w) ELSE r.Header.Date
    IN [signingString |->
            << "(request-target): " >> \o requestTarget
            \o << "\n", "host: ", host, "\n", "date: ", date >>,
        date |-> date,
        req |-> IF r.Header.Date = "" THEN [r EXCEPT !.Header.Date = date] ELSE r]

\* -------------------------------------------------------------- signRequest
\* The smallest modulus (in the model's unit) that holds a SHA-256
\* DigestInfo: rsa.SignPKCS1v15 fails on a smaller key.
MinModulus == 5

Sum256(str) == "sha256(" \o str \o ")"

SignPKCS1v15(privateKey, hashed) ==
    IF privateKey.N < MinModulus
    THEN [err |-> TRUE, signature |-> ""]
    ELSE [err |-> FALSE,
          signature |-> "rsa[" \o Decimal(privateKey.N) \o "](" \o hashed \o ")"]

EncodeToString(signature) == "base64(" \o signature \o ")"

AuthorizationWithoutKeyID(keyID, encodedSignature) ==
    "Signature version=\"1\",keyId=\"\",algorithm=\"rsa-sha256\","
    \o "headers=\"(request-target) host date\",signature=\""
    \o encodedSignature \o "\""

\* The fmt.Sprintf of the Authorization header.
Authorization(keyID, encodedSignature) ==
    "Signature version=\"1\",keyId=\"" \o keyID \o "\",algorithm=\"rsa-sha256\","
    \o "headers=\"(request-target) host date\",signature=\""
    \o encodedSignature \o "\""

signRequestSetsHost(r, privateKey, keyID, signingString, w) ==
    LET s == SignPKCS1v15(privateKey, Sum256(Join(signingString)))
    IN IF s.err
       THEN [err |-> TRUE, req |-> r]
       ELSE [err |-> FALSE,
             req |-> [r EXCEPT
                        !.Header.Authorization =
                            Authorization(keyID, EncodeToString(s.signature)),
                        !.Header.Date = HTTPDate(w),
                        !.Host = r.URLHost]]

\* Lines 256-277 of signRequest, at wall-clock time w: hash and sign the
\* signing string, then set the Authorization and the Date header.
signRequest(r, privateKey, keyID, signingString, w) ==
    LET s == SignPKCS1v15(privateKey, Sum256(Join(signingString)))
    IN IF s.err
       THEN [err |-> TRUE, req |-> r]
       ELSE [err |-> FALSE,
             req |-> [r EXCEPT
                        !.Header.Authorization =
                            Authorization(keyID, EncodeToString(s.signature)),
                        !.Header.Date = HTTPDate(w)]]

\* getCredentials run by a single goroutine: both checks see the same
\* cache, so a miss goes straight to the refresh.
getCredentials(c, t, rCert, rInt, rKey, id) ==
    IF Fresh(c, t)
    THEN [cache |-> c, result |-> Ok(c.privateKey, c.keyID), fetched |-> FALSE]
    ELSE LET f == fetchInstanceMetadata(rCert, rInt, rKey)
             r == refreshCache(c, f.metadata, t, id)
         IN IF f.err
            THEN [cache |-> c, result |-> Failed, fetched |-> TRUE]
            ELSE [cache |-> r.cache,
                  result |-> IF r.err THEN Failed ELSE Ok(r.privateKey, r.keyID),
                  fetched |-> TRUE]

\* The keys served while requests are signed: the usual one, one too small
\* to sign with, and a document that is no key.
SignKeyPems ==
    { KeyPem(TRUE, "pkcs8", "rsa", 11),
      KeyPem(TRUE, "pkcs1", "rsa", 3),
      KeyPem(TRUE, "junk", "rsa", 0) }

\* The position and the locals of a SignRequest call:
\*   pc : "idle", "credentials" (before getCredentials), "build" (before
\*        buildSigningString), "sign" (before the hash), "returned"
\*   calls : the number of SignRequest calls made
\*   err : "" or the step that failed
\*   date, builtAt : the date in the signing string and the wall-clock time
\*        buildSigningString ran at
NotSigning ==
    [pc |-> "idle", calls |-> 0, privateKey |-> NilKey, keyID |-> "",
     signingString |-> << >>, date |-> "", builtAt |-> 0, err |-> "",
     fetched |-> FALSE]

\* ------------------------------------------------------------ config.Config
\* The float64 and float32 parameters are counted in hundredths (1.0 is
\* 100); the widening float64(x) of a float32 keeps the value.
Config(compartmentID, maxTokens, temperature, topP, frequencyPenalty, presencePenalty, topK) ==
    [CompartmentID |-> compartmentID, MaxTokens |-> maxTokens,
     Temperature |-> temperature, TopP |-> topP,
     FrequencyPenalty |-> frequencyPenalty, PresencePenalty |-> presencePenalty,
     TopK |-> topK]

\* config.New(), which CreateConfig returns: the defaults, no compartment.
CreateConfig == Config("", 600, 100, 75, 0, 0, 0)

ValidateCompartmentOnly(c) ==
    IF c.CompartmentID = ""
    THEN "compartmentId is required and cannot be empty"
    ELSE ""

\* Config.Validate: "" for nil, else the message of the first check that
\* fails.
Validate(c) ==
    IF c.CompartmentID = ""
    THEN "compartmentId is required and cannot be empty"
    ELSE IF c.Temperature < 0 \/ c.Temperature > 200
    THEN "temperature must be between 0.0 and 2.0"
    ELSE IF c.TopP < 0 \/ c.TopP > 100
    THEN "topP must be between 0.0 and 1.0"
    ELSE IF c.FrequencyPenalty < -200 \/ c.FrequencyPenalty > 200
    THEN "frequencyPenalty must be between -2.0 and 2.0"
    ELSE IF c.PresencePenalty < -200 \/ c.PresencePenalty > 200
    THEN "presencePenalty must be between -2.0 and 2.0"
    ELSE IF c.MaxTokens < 1
    THEN "maxTokens must be greater than 0"
    ELSE IF c.TopK < 0
    THEN "topK must be non-negative"
    ELSE ""

\* A nil http.Handler, and the Proxy that New builds: its configuration,
\* its transformer's configuration and its authenticator's empty cache.
NilProxy ==
    [nil |-> TRUE, config |-> CreateConfig, transformer |-> CreateConfig,
     authenticator |-> EmptyCache]

\* New of plugin.go.
New(cfg) ==
    LET err == Validate(cfg)
    IN IF err # ""
       THEN [err |-> "invalid configuration: " \o err, handler |-> NilProxy]
       ELSE [err |-> "",
             handler |-> [nil |-> FALSE, config |-> cfg, transformer |-> cfg,
                          authenticator |-> EmptyCache]]

\* ------------------------------------------------------ ToOracleCloudRequest
ChatCompletionMessage(role, content) == [Role |-> role, Content |-> content]

ChatCompletionRequest(model, messages, maxTokens, temperature, topP, frequencyPenalty, presencePenalty) ==
    [Model |-> model, Messages |-> messages, MaxTokens |-> maxTokens,
     Temperature |-> temperature, TopP |-> topP,
     FrequencyPenalty |-> frequencyPenalty, PresencePenalty |-> presencePenalty]

\* types.OracleCloudRequest with the fields the transformer fills.
OracleCloudRequest(compartmentID, modelID, maxTokens, temperature, frequencyPenalty, presencePenalty, topP, topK, message) ==
    [CompartmentID |-> compartmentID,
     ServingMode |-> [ModelID |-> modelID, ServingType |-> "ON_DEMAND"],
     ChatRequest |->
        [MaxTokens |-> maxTokens, Temperature |-> temperature,
         FrequencyPenalty |-> frequencyPenalty,
         PresencePenalty |-> presencePenalty, TopP |-> topP, TopK |-> topK,
         IsStream |-> FALSE, StreamOptions |-> [IsIncludeUsage |-> FALSE],
         ChatHistory |-> << >>, Message |-> message, APIFormat |-> "COHERE"]]

ToOracleCloudRequestFirstMessage(config, openAIReq) ==
    LET message == IF Len(openAIReq.Messages) > 0
                   THEN openAIReq.Messages[1].Content
                   ELSE ""
        Pick(requested, configured) ==
            IF requested # 0 THEN requested ELSE configured
    IN OracleCloudRequest(
           config.CompartmentID, openAIReq.Model,
           Pick(openAIReq.MaxTokens, config.MaxTokens),
           Pick(openAIReq.Temperature, config.Temperature),
           Pick(openAIReq.FrequencyPenalty, config.FrequencyPenalty),
           Pick(openAIReq.PresencePenalty, config.PresencePenalty),
           Pick(openAIReq.TopP, config.TopP),
           config.TopK, message)

ToOracleCloudRequestRequestWins(config, openAIReq) ==
    LET message == IF Len(openAIReq.Messages) > 0
                   THEN openAIReq.Messages[Len(openAIReq.Messages)].Content
                   ELSE ""
    IN OracleCloudRequest(
           config.CompartmentID, openAIReq.Model,
           openAIReq.MaxTokens, openAIReq.Temperature,
           openAIReq.FrequencyPenalty, openAIReq.PresencePenalty,
           openAIReq.TopP, config.TopK, message)

\* Transformer.ToOracleCloudRequest, config being the transformer's.
ToOracleCloudRequest(config, openAIReq) ==
    LET message == IF Len(openAIReq.Messages) > 0
                   THEN openAIReq.Messages[Len(openAIReq.Messages)].Content
                   ELSE ""
        Pick(requested, configured) ==
            IF requested # 0 THEN requested ELSE configured
    IN OracleCloudRequest(
           config.CompartmentID, openAIReq.Model,
           Pick(openAIReq.MaxTokens, config.MaxTokens),
           Pick(openAIReq.Temperature, config.Temperature),
           Pick(openAIReq.FrequencyPenalty, config.FrequencyPenalty),
           Pick(openAIReq.PresencePenalty, config.PresencePenalty),
           Pick(openAIReq.TopP, config.TopP),
           config.TopK, message)

\* ----------------------------------------------------------- Proxy.ServeHTTP
\* The Proxy under study: New with the default configuration and a
\* compartment.
Proxy == New([CreateConfig EXCEPT !.CompartmentID = "ocid1.compartment.a"]).handler

\* strings.HasSuffix, for a suffix that is one piece.
HasSuffix(text, suffix) == Len(text) > 0 /\ text[Len(text)] = suffix

shouldProcessRequestAnyMethod(r) == HasSuffix(r.Path, "/chat/completions")

shouldProcessRequest(r) ==
    r.Method = << "P", "O", "S", "T" >> /\ HasSuffix(r.Path, "/chat/completions")

\* A request body: what its bytes are ("empty", "text" that is no JSON,
\* the JSON "null", a JSON "object" with value as its content), how many
\* they are, and whether reading and closing it succeed.
Body(kind, value, len, readOk, closeOk) ==
    [kind |-> kind, value |-> value, len |-> len, readOk |-> readOk,
     closeOk |-> closeOk]

\* The zero value of types.ChatCompletionRequest.
ZeroRequest == ChatCompletionRequest("", << >>, 0, 0, 0, 0, 0)

\* json.Unmarshal(body, &openAIReq) into the zero value: null leaves it
\* as it is.
Unmarshal(body) ==
    CASE body.kind = "object" -> [err |-> FALSE, value |-> body.value]
      [] body.kind = "null" -> [err |-> FALSE, value |-> ZeroRequest]
      [] OTHER -> [err |-> TRUE, value |-> ZeroRequest]

\* json.Marshal(oracleReq) behind io.NopCloser(bytes.NewReader(...)).
Marshal(oracleReq) == Body("object", oracleReq, 300, TRUE, TRUE)

\* An http.ResponseWriter nothing was written to: no status, no body.
NoResponse == [status |-> 0, body |-> << >>]

ErrorLastWins(rw, msg, code) == [status |-> code, body |-> Append(rw.body, msg)]

\* http.Error: WriteHeader(code), which sets the status only if none was
\* written before, and the message as a line of the body.
Error(rw, msg, code) ==
    [status |-> IF rw.status = 0 THEN code ELSE rw.status,
     body |-> Append(rw.body, msg)]

\* processOpenAIRequest as it would be if ContentLength were left as it came.
processOpenAIRequestKeepsLength(p, rw, r) ==
    LET u == Unmarshal(r.Body)
        oracleReq == ToOracleCloudRequest(p.transformer, u.value)
        oracleBody == Marshal(oracleReq)
    IN IF ~r.Body.readOk
       THEN [err |-> "failed to read request body", rw |-> rw, req |-> r]
       ELSE IF ~r.Body.closeOk
       THEN [err |-> "failed to close request body", rw |-> rw, req |-> r]
       ELSE IF u.err
       THEN [err |-> "invalid JSON",
             rw |-> Error(rw, "Failed to parse OpenAI request", 400),
             req |-> r]
       ELSE [err |-> "", rw |-> rw,
             req |-> [r EXCEPT !.Body = oracleBody,
                               !.Header.ContentType = "application/json"]]

\* processOpenAIRequest up to its call of SignRequest: the error it
\* returns before that call ("" if it gets there), the response writer
\* and the request as it leaves them.
processOpenAIRequest(p, rw, r) ==
    LET u == Unmarshal(r.Body)
        oracleReq == ToOracleCloudRequest(p.transformer, u.value)
        oracleBody == Marshal(oracleReq)
    IN IF ~r.Body.readOk
       THEN [err |-> "failed to read request body", rw |-> rw, req |-> r]
       ELSE IF ~r.Body.closeOk
       THEN [err |-> "failed to close request body", rw |-> rw, req |-> r]
       ELSE IF u.err
       THEN [err |-> "invalid JSON",
             rw |-> Error(rw, "Failed to parse OpenAI request", 400),
             req |-> r]
       ELSE [err |-> "", rw |-> rw,
             req |-> [r EXCEPT !.Body = oracleBody,
                               !.ContentLength = oracleBody.len,
                               !.Header.ContentType = "application/json"]]

\* The requests Traefik hands to ServeHTTP.
GET == << "G", "E", "T" >>

Bodies ==
    { Body("empty", ZeroRequest, 0, TRUE, TRUE),
      Body("text", ZeroRequest, 14, TRUE, TRUE),
      Body("null", ZeroRequest, 4, TRUE, TRUE),
      Body("object",
           ChatCompletionRequest("cohere.command-r",
                                 << ChatCompletionMessage("user", "hello") >>,
                                 50, 0, 0, 0, 0),
           80, TRUE, TRUE),
      Body("text", ZeroRequest, 14, FALSE, TRUE),
      Body("object", ZeroRequest, 80, TRUE, FALSE) }

IncomingRequests ==
    { [Request(m, p, "", "genai.example", "", "Bearer sk-client")
         EXCEPT !.Body = b, !.ContentLength = b.len,
                !.Header.ContentType = "text/plain"] :
        m \in Methods \cup { GET, << "p", "o", "s", "t" >> },
        p \in { << "/v1", "/chat/completions" >>, << "/chat/completions", "/" >>,
                << "/other/endpoint" >> },
        b \in Bodies }

\* The position and the record of a ServeHTTP call:
\*   pc : "idle", "signing" (inside SignRequest), "done"
\*   calls : the number of ServeHTTP calls made
\*   in : the request as it came in
\*   processed : shouldProcessRequest said yes
\*   rw : the response written by the plugin
\*   next : the requests passed to the next handler by this call
\*   entry : the numbers of metadata fetches and SignRequest calls made
\*           before this call
NotServing ==
    [pc |-> "idle", calls |-> 0, in |-> NoRequest, processed |-> FALSE,
     rw |-> NoResponse, next |-> << >>,
     entry |-> [fetchCount |-> 0, signCalls |-> 0]]

\* ------------------------------------------------- one function, one input
\* The application of a function: its name, its input, whether it has
\* returned, and its results.
NoCall == [fn |-> "", in |-> << >>, done |-> FALSE, out |-> << >>]

Call(fn, in) == [fn |-> fn, in |-> in, done |-> FALSE, out |-> << >>]

\* --------------------------------------------------------------------- Init
InitAuthenticator ==
    /\ now = ZeroTime + 1
    /\ cache = EmptyCache
    /\ readers = {}
    /\ writer = NoCaller
    /\ pc = [c \in Callers |-> "idle"]
    /\ result = [c \in Callers |-> NoResult]
    /\ fetchCount = 0
    /\ hist = [c \in Callers |-> NoHist]
    /\ batch = {}
    /\ lastRet = NoReturn
    /\ req = NoRequest
    /\ orig = NoRequest
    /\ wall = 0
    /\ sign = NotSigning
    /\ plugin = NotServing

Init ==
    /\ InitAuthenticator
    /\ call = NoCall

\* ------------------------------------------------------------------ actions
\* A goroutine calls getCredentials. The goroutines are interchangeable, so
\* they are started in the order of their numbers.
Invoke(c) ==
    /\ pc[c] = "idle"
    /\ \A d \in Callers : d < c => pc[d] # "idle"
    /\ pc' = [pc EXCEPT ![c] = "rlock"]
    /\ hist' = [hist EXCEPT ![c].invokedFresh = Usable(cache, now),
                            ![c].invokedVer = cache.privateKey.ptr]
    /\ batch' = IF batch \subseteq Done THEN {c} ELSE batch \cup {c}
    /\ UNCHANGED <<now, cache, readers, writer, result, fetchCount, lastRet>>
    /\ UNCHANGED signVars
    /\ UNCHANGED handlerVars

\* a.cache.mu.RLock()
RLock(c) ==
    /\ pc[c] = "rlock"
    /\ CanRLock
    /\ readers' = readers \cup {c}
    /\ pc' = [pc EXCEPT ![c] = "check1"]
    /\ UNCHANGED <<now, cache, writer, result, fetchCount, hist, batch, lastRet>>
    /\ UNCHANGED signVars
    /\ UNCHANGED handlerVars

\* The check under the read lock, with the RUnlock of either branch.
CheckCache(c) ==
    /\ pc[c] = "check1"
    /\ c \in readers
    /\ readers' = RUnlock(c)
    /\ IF FirstCheck(now)
       THEN /\ result' = [result EXCEPT ![c] = Ok(cache.privateKey, cache.keyID)]
            /\ pc' = [pc EXCEPT ![c] = "done"]
            /\ hist' = Returned(hist, c, "check1", cache)
            /\ lastRet' = Return(c, "check1", cache, << >>)
       ELSE /\ pc' = [pc EXCEPT ![c] = "lock"]
            /\ UNCHANGED <<result, hist, lastRet>>
    /\ UNCHANGED <<now, cache, writer, fetchCount, batch>>
    /\ UNCHANGED signVars
    /\ UNCHANGED handlerVars

\* a.cache.mu.Lock()
Lock(c) ==
    /\ pc[c] = "lock"
    /\ CanLock
    /\ writer' = c
    /\ pc' = [pc EXCEPT ![c] = "check2"]
    /\ UNCHANGED <<now, cache, readers, result, fetchCount, hist, batch, lastRet>>
    /\ UNCHANGED signVars
    /\ UNCHANGED handlerVars

\* The double check under the write lock; a hit returns through the
\* deferred Unlock, a miss goes on to the refresh.
DoubleCheck(c) ==
    /\ pc[c] = "check2"
    /\ IF SecondCheck(now)
       THEN /\ result' = [result EXCEPT ![c] = Ok(cache.privateKey, cache.keyID)]
            /\ pc' = [pc EXCEPT ![c] = "done"]
            /\ writer' = Unlock(c)
            /\ hist' = Returned(hist, c, "check2", cache)
            /\ lastRet' = Return(c, "check2", cache, << >>)
       ELSE /\ pc' = [pc EXCEPT ![c] = "refresh"]
            /\ UNCHANGED <<result, writer, hist, lastRet>>
    /\ UNCHANGED <<now, cache, readers, fetchCount, batch>>
    /\ UNCHANGED signVars
    /\ UNCHANGED handlerVars

\* The refresh: a.fetchInstanceMetadata() against whatever the metadata
\* service answers, parsing, expiry computation and cache update, and the
\* return through the deferred Unlock on every path. A request that an
\* earlier failure prevents gets no answer.
Refresh(c) ==
    /\ pc[c] = "refresh"
    /\ \E rCert \in Responses(CertPems) :
       \E rInt \in IF fetchMetadataEndpoint(rCert).err
                   THEN { NotRequested } ELSE Responses(IntermediatePems) :
       \E rKey \in IF fetchMetadataEndpoint(rInt).err
                   THEN { NotRequested } ELSE Responses(KeyPems) :
          LET f == fetchInstanceMetadata(rCert, rInt, rKey)
              r == refreshCache(cache, f.metadata, now, fetchCount + 1)
              h == [hist EXCEPT ![c].fetched = TRUE]
          IN IF f.err
             THEN /\ result' = [result EXCEPT ![c] = Failed]
                  /\ hist' = MarkWaiters(Returned(h, c, "fetch_error", cache), c)
                  /\ lastRet' = Return(c, "fetch_error", cache,
                                        Requested(f.reqs, << rCert, rInt, rKey >>))
                  /\ UNCHANGED cache
             ELSE /\ cache' = r.cache
                  /\ result' = [result EXCEPT ![c] =
                                   IF r.err THEN Failed ELSE Ok(r.privateKey, r.keyID)]
                  /\ hist' = IF r.err
                             THEN MarkWaiters(Returned(h, c, r.via, r.cache), c)
                             ELSE Returned(h, c, r.via, r.cache)
                  /\ lastRet' = Return(c, r.via, r.cache,
                                        Requested(f.reqs, << rCert, rInt, rKey >>))
    /\ fetchCount' = fetchCount + 1
    /\ pc' = [pc EXCEPT ![c] = "done"]
    /\ writer' = Unlock(c)
    /\ UNCHANGED <<now, readers, batch>>
    /\ UNCHANGED signVars
    /\ UNCHANGED handlerVars

\* Time passes.
Tick ==
    /\ now < MaxTime
    /\ now' = now + 1
    /\ UNCHANGED <<cache, readers, writer, pc, result, fetchCount, hist, batch, lastRet>>
    /\ UNCHANGED signVars
    /\ UNCHANGED handlerVars

Next ==
    \/ \E c \in Callers : Invoke(c)
    \/ \E c \in Callers : RLock(c)
    \/ \E c \in Callers : CheckCache(c)
    \/ \E c \in Callers : Lock(c)
    \/ \E c \in Callers : DoubleCheck(c)
    \/ \E c \in Callers : Refresh(c)
    \/ Tick

Spec == Init /\ [][Next]_vars

TypeOK ==
    /\ now \in Times
    /\ writer \in Callers \cup {NoCaller}
    /\ readers \subseteq Callers
    /\ fetchCount \in 0..NumCallers
    /\ batch \subseteq Callers

\* ------------------------------------------------- getCredentials, scheduled
\* The goroutines keep running: a caller that can take its next step inside
\* getCredentials takes it, every metadata request returns (the client times
\* out after ten seconds), and a caller for whom the lock stays available
\* acquires it.
Fairness ==
    \A c \in Callers :
        /\ WF_vars(RLock(c))
        /\ WF_vars(CheckCache(c))
        /\ WF_vars(Lock(c))
        /\ WF_vars(DoubleCheck(c))
        /\ WF_vars(Refresh(c))

FairSpec == Init /\ [][Next]_vars /\ Fairness

\* ------------------------------------------- getCredentials with logging
\* The variant of getCredentials that signs through the OCI request signer
\* logs a.cache.expiresAt on a hit of the first check, after RUnlock and
\* before it returns; the rest of the function is the same.

\* The check under the read lock; a hit copies the pair, releases the read
\* lock and goes on to the log line.
CheckCacheLogged(c) ==
    /\ pc[c] = "check1"
    /\ c \in readers
    /\ readers' = RUnlock(c)
    /\ IF FirstCheck(now)
       THEN /\ result' = [result EXCEPT ![c] = Ok(cache.privateKey, cache.keyID)]
            /\ pc' = [pc EXCEPT ![c] = "log"]
            /\ hist' = Returned(hist, c, "check1", cache)
            /\ lastRet' = Return(c, "check1", cache, << >>)
       ELSE /\ pc' = [pc EXCEPT ![c] = "lock"]
            /\ UNCHANGED <<result, hist, lastRet>>
    /\ UNCHANGED <<now, cache, writer, fetchCount, batch>>
    /\ UNCHANGED signVars
    /\ UNCHANGED handlerVars

\* log.Printf(..., a.cache.expiresAt), and the return of the copied pair.
LogExpiry(c) ==
    /\ pc[c] = "log"
    /\ pc' = [pc EXCEPT ![c] = "done"]
    /\ UNCHANGED <<now, cache, readers, writer, result, fetchCount, hist, batch, lastRet>>
    /\ UNCHANGED signVars
    /\ UNCHANGED handlerVars

OcisdkNext ==
    \/ \E c \in Callers : Invoke(c)
    \/ \E c \in Callers : RLock(c)
    \/ \E c \in Callers : CheckCacheLogged(c)
    \/ \E c \in Callers : LogExpiry(c)
    \/ \E c \in Callers : Lock(c)
    \/ \E c \in Callers : DoubleCheck(c)
    \/ \E c \in Callers : Refresh(c)
    \/ Tick

OcisdkSpec == Init /\ [][OcisdkNext]_vars

\* The positions whose next step reads a cache field, and those whose next
\* step writes one.
ReadPositions == { "check1", "check2", "refresh", "log" }

WritePositions == { "refresh" }

\* ------------------------------------------------------ SignRequest, alone
\* One goroutine signs one request after the other. The quarter-hour clock
\* stands still while the wall clock runs.

\* SignRequest is called with request r.
SignRequest(r) ==
    /\ sign.pc \in { "idle", "returned" }
    /\ sign.calls < MaxSignCalls
    /\ req' = r
    /\ orig' = r
    /\ sign' = [NotSigning EXCEPT !.pc = "credentials", !.calls = sign.calls + 1]
    /\ UNCHANGED <<now, cache, fetchCount, wall>>
    /\ UNCHANGED callVars
    /\ UNCHANGED handlerVars

\* a.getCredentials(), against whatever the metadata service answers; an
\* error returns from SignRequest at once.
GetCredentials ==
    /\ sign.pc = "credentials"
    /\ \E rCert \in Responses(CertPems) :
       \E rInt \in IF fetchMetadataEndpoint(rCert).err
                   THEN { NotRequested } ELSE Responses(IntermediatePems) :
       \E rKey \in IF fetchMetadataEndpoint(rInt).err
                   THEN { NotRequested } ELSE Responses(SignKeyPems) :
          LET g == getCredentials(cache, now, rCert, rInt, rKey, fetchCount + 1)
          IN /\ cache' = g.cache
             /\ fetchCount' = IF g.fetched THEN fetchCount + 1 ELSE fetchCount
             /\ sign' = IF g.result.err
                        THEN [sign EXCEPT !.pc = "returned",
                                          !.err = "failed to get credentials",
                                          !.fetched = g.fetched]
                        ELSE [sign EXCEPT !.pc = "build",
                                          !.privateKey = g.result.privateKey,
                                          !.keyID = g.result.keyID,
                                          !.fetched = g.fetched]
    /\ UNCHANGED <<now, req, orig, wall>>
    /\ UNCHANGED callVars
    /\ UNCHANGED handlerVars

\* signRequest calls buildSigningString.
BuildSigningString ==
    /\ sign.pc = "build"
    /\ LET b == buildSigningString(req, wall)
       IN /\ req' = b.req
          /\ sign' = [sign EXCEPT !.pc = "sign",
                                  !.signingString = b.signingString,
                                  !.date = b.date,
                                  !.builtAt = wall]
    /\ UNCHANGED <<now, cache, fetchCount, orig, wall>>
    /\ UNCHANGED callVars
    /\ UNCHANGED handlerVars

\* The rest of signRequest, and the return of SignRequest.
Sign ==
    /\ sign.pc = "sign"
    /\ LET s == signRequest(req, sign.privateKey, sign.keyID, sign.signingString, wall)
       IN /\ req' = s.req
          /\ sign' = [sign EXCEPT !.pc = "returned",
                                  !.err = IF s.err THEN "failed to sign request" ELSE ""]
    /\ UNCHANGED <<now, cache, fetchCount, orig, wall>>
    /\ UNCHANGED callVars
    /\ UNCHANGED handlerVars

\* Half a second passes.
WallTick ==
    /\ wall < MaxWall
    /\ wall' = wall + 1
    /\ UNCHANGED <<now, cache, fetchCount, req, orig, sign>>
    /\ UNCHANGED callVars
    /\ UNCHANGED handlerVars

SignNext ==
    \/ \E r \in Requests : SignRequest(r)
    \/ GetCredentials
    \/ BuildSigningString
    \/ Sign
    \/ WallTick

SignSpec == Init /\ [][SignNext]_vars

\* ------------------------------------------------------- ServeHTTP, alone
\* One goroutine serves one request after the other.

\* ServeHTTP is called with request r and runs up to its call of
\* SignRequest, or to its end if it does not get there.
ServeHTTP(r) ==
    /\ plugin.pc \in { "idle", "done" }
    /\ plugin.calls < MaxServeCalls
    /\ LET process == shouldProcessRequest(r)
           p == processOpenAIRequest(Proxy, NoResponse, r)
           served == [NotServing EXCEPT
                        !.calls = plugin.calls + 1, !.in = r,
                        !.processed = process,
                        !.entry = [fetchCount |-> fetchCount,
                                   signCalls |-> sign.calls]]
       IN IF ~process
          THEN /\ plugin' = [served EXCEPT !.pc = "done", !.next = << r >>]
               /\ req' = r
               /\ UNCHANGED <<orig, sign>>
          ELSE IF p.err # ""
          THEN /\ plugin' = [served EXCEPT !.pc = "done",
                                           !.rw = Error(p.rw, p.err, 500)]
               /\ req' = p.req
               /\ UNCHANGED <<orig, sign>>
          ELSE /\ plugin' = [served EXCEPT !.pc = "signing"]
               /\ req' = p.req
               /\ orig' = p.req
               /\ sign' = [NotSigning EXCEPT !.pc = "credentials",
                                             !.calls = sign.calls + 1]
    /\ UNCHANGED <<now, cache, fetchCount, wall, call>>
    /\ UNCHANGED callVars

\* Forward as it would be if the error of SignRequest were dropped.
ForwardIgnoringError ==
    /\ plugin.pc = "signing"
    /\ sign.pc = "returned"
    /\ plugin' = [plugin EXCEPT !.pc = "done", !.next = << req >>]
    /\ UNCHANGED <<now, cache, fetchCount, call>>
    /\ UNCHANGED signVars
    /\ UNCHANGED callVars

\* SignRequest has returned: its error is answered with status 500,
\* otherwise the request goes to the next handler.
Forward ==
    /\ plugin.pc = "signing"
    /\ sign.pc = "returned"
    /\ plugin' = IF sign.err # ""
                 THEN [plugin EXCEPT
                         !.pc = "done",
                         !.rw = Error(plugin.rw,
                                      "failed to authenticate request: " \o sign.err,
                                      500)]
                 ELSE [plugin EXCEPT !.pc = "done", !.next = << req >>]
    /\ UNCHANGED <<now, cache, fetchCount, call>>
    /\ UNCHANGED signVars
    /\ UNCHANGED callVars

PluginNext ==
    \/ \E r \in IncomingRequests : ServeHTTP(r)
    \/ GetCredentials
    \/ BuildSigningString
    \/ Sign
    \/ WallTick
    \/ Forward

PluginSpec == Init /\ [][PluginNext]_vars

\* ------------------------------------------- the signer with a key provider
\* The Authenticator whose signer is built from instancePrincipalKeyProvider:
\* one goroutine signs one request after the other, and the signer asks the
\* provider for the private key and for the key ID, one call each.

\* The position and the locals of a Sign call of that signer:
\*   pc : "idle", "key" (before PrivateRSAKey), "keyid" (before KeyID),
\*        "returned"
\*   keyOf, keyIDOf : the bundle, named by the serial of its fetch, that the
\*        key and the key ID were taken from
NotProviding ==
    [pc |-> "idle", calls |-> 0, privateKey |-> NilKey, keyID |-> "",
     keyOf |-> 0, keyIDOf |-> 0, err |-> ""]

\* SignRequest hands request r to a.signer.Sign.
SignerSign(r) ==
    /\ sign.pc \in { "idle", "returned" }
    /\ sign.calls < MaxSignCalls
    /\ req' = r
    /\ orig' = r
    /\ sign' = [NotProviding EXCEPT !.pc = "key", !.calls = sign.calls + 1]
    /\ UNCHANGED <<now, cache, fetchCount, wall>>
    /\ UNCHANGED callVars
    /\ UNCHANGED handlerVars

\* kp.PrivateRSAKey(): a getCredentials call of which the key is kept.
PrivateRSAKey ==
    /\ sign.pc = "key"
    /\ \E rCert \in Responses(CertPems) :
       \E rInt \in IF fetchMetadataEndpoint(rCert).err
                   THEN { NotRequested } ELSE Responses(IntermediatePems) :
       \E rKey \in IF fetchMetadataEndpoint(rInt).err
                   THEN { NotRequested } ELSE Responses(KeyPems) :
          LET g == getCredentials(cache, now, rCert, rInt, rKey, fetchCount + 1)
          IN /\ cache' = g.cache
             /\ fetchCount' = IF g.fetched THEN fetchCount + 1 ELSE fetchCount
             /\ sign' = IF g.result.err
                        THEN [sign EXCEPT !.pc = "returned",
                                          !.err = "failed to sign request"]
                        ELSE [sign EXCEPT !.pc = "keyid",
                                          !.privateKey = g.result.privateKey,
                                          !.keyOf = g.cache.privateKey.ptr]
    /\ UNCHANGED <<now, req, orig, wall>>
    /\ UNCHANGED callVars
    /\ UNCHANGED handlerVars

\* kp.KeyID(): a getCredentials call of which the key ID is kept; the signer
\* returns after it.
KeyID ==
    /\ sign.pc = "keyid"
    /\ \E rCert \in Responses(CertPems) :
       \E rInt \in IF fetchMetadataEndpoint(rCert).err
                   THEN { NotRequested } ELSE Responses(IntermediatePems) :
       \E rKey \in IF fetchMetadataEndpoint(rInt).err
                   THEN { NotRequested } ELSE Responses(KeyPems) :
          LET g == getCredentials(cache, now, rCert, rInt, rKey, fetchCount + 1)
          IN /\ cache' = g.cache
             /\ fetchCount' = IF g.fetched THEN fetchCount + 1 ELSE fetchCount
             /\ sign' = IF g.result.err
                        THEN [sign EXCEPT !.pc = "returned",
                                          !.err = "failed to sign request"]
                        ELSE [sign EXCEPT !.pc = "returned",
                                          !.keyID = g.result.keyID,
                                          !.keyIDOf = g.cache.privateKey.ptr]
    /\ UNCHANGED <<now, req, orig, wall>>
    /\ UNCHANGED callVars
    /\ UNCHANGED handlerVars

ProviderNext ==
    \/ \E r \in Requests : SignerSign(r)
    \/ PrivateRSAKey
    \/ KeyID
    \/ Tick

ProviderSpec == Init /\ [][ProviderNext]_vars

\* ------------------------------------------------ the functions, one by one
\* Each action applies one function of the program to one input.

\* The statuses the metadata service answers with.
Statuses == { StatusOK, 204, 404, 500 }

\* The metadata URLs with the documents served under them.
Documents ==
    [url \in { "cert.pem", "intermediate.pem", "key.pem" } |->
        CASE url = "cert.pem" -> CertPems
          [] url = "intermediate.pem" -> IntermediatePems
          [] url = "key.pem" -> KeyPems \cup SignKeyPems]

\* Every answer to a GET of url: no connection, each status with a body
\* that arrives whole or breaks off.
EndpointResponses(url) ==
    { Response(FALSE, 0, FALSE, CHOOSE b \in Documents[url] : TRUE) }
    \cup { Response(TRUE, st, ok, b) :
              st \in Statuses, ok \in BOOLEAN, b \in Documents[url] }

\* The function returns.
Apply(fn, out) ==
    /\ call.fn = fn
    /\ ~call.done
    /\ call' = [call EXCEPT !.done = TRUE, !.out = out]
    /\ UNCHANGED <<now, cache, fetchCount, plugin>>
    /\ UNCHANGED callVars
    /\ UNCHANGED signVars

FetchMetadataEndpoint ==
    Apply("fetchMetadataEndpoint",
          [req |-> MetadataRequest(call.in.url),
           res |-> fetchMetadataEndpoint(call.in.resp)])

\* Key documents of every shape: with and without a PEM block, in each
\* encoding, with each key algorithm a PKCS#8 wrapper may hold, with two
\* moduli.
AllKeyPems ==
    { KeyPem(pem, enc, alg, n) :
        pem \in BOOLEAN, enc \in { "pkcs1", "pkcs8", "junk" },
        alg \in { "rsa", "ec", "ed25519" }, n \in { 3, 11 } }

ParsePrivateKey == Apply("parsePrivateKey", parsePrivateKey(call.in, 1))

\* Subjects of every shape: without a uniqueIdentifier; with one whose
\* value is a string, the empty string, or no string (a BIT STRING, which
\* parsers that keep the raw ASN.1 value hand over as it is); with two of
\* them.
Subjects ==
    { SubjectWithoutUID, SubjectWithUID,
      << Attr(OIDUniqueIdentifier, TRUE, "ocid1.instance.b"),
         Attr(OIDCommonName, TRUE, "instance") >>,
      << Attr(OIDCommonName, TRUE, "instance"),
         Attr(OIDUniqueIdentifier, TRUE, "") >>,
      << Attr(OIDUniqueIdentifier, FALSE, "bits") >>,
      << Attr(OIDUniqueIdentifier, TRUE, ""),
         Attr(OIDUniqueIdentifier, TRUE, "ocid1.instance.a") >>,
      << Attr(OIDUniqueIdentifier, TRUE, "ocid1.instance.a"),
         Attr(OIDUniqueIdentifier, TRUE, "ocid1.instance.b") >>,
      << >> }

AllCertPems ==
    { CertPem(TRUE, TRUE, names, serial, na) :
        names \in Subjects, serial \in { 0, 42, 123456789 }, na \in NotAfters }
    \cup { CertPem(TRUE, FALSE, << >>, 0, 0), CertPem(FALSE, FALSE, << >>, 0, 0) }

ExtractKeyIDAndExpiration ==
    Apply("extractKeyIDAndExpiration", extractKeyIDAndExpiration(call.in))

\* Configurations around every limit Validate checks.
Configs ==
    { Config(id, mt, t, p, fp, pp, k) :
        id \in { "", "ocid1.compartment.a" }, mt \in { -1, 0, 1, 600 },
        t \in { -1, 0, 100, 200, 201 }, p \in { -1, 0, 75, 100, 101 },
        fp \in { -201, -200, 0, 200, 201 }, pp \in { -201, -200, 0, 200, 201 },
        k \in { -1, 0, 5 } }

NewProxy == Apply("New", [validate |-> Validate(call.in), new |-> New(call.in)])

\* The default configuration with a compartment, and one that has no
\* default value left.
TransformerConfigs ==
    { [CreateConfig EXCEPT !.CompartmentID = "ocid1.compartment.a"],
      Config("ocid1.compartment.b", 100, 50, 50, 100, -100, 5) }

\* Conversations of no, one, two and three messages.
Conversations ==
    { << >>,
      << ChatCompletionMessage("user", "hello") >>,
      << ChatCompletionMessage("system", "be brief"),
         ChatCompletionMessage("user", "question"),
         ChatCompletionMessage("assistant", "answer") >>,
      << ChatCompletionMessage("user", "question"),
         ChatCompletionMessage("system", "") >> }

ChatCompletionRequests ==
    { ChatCompletionRequest(m, msgs, mt, t, p, fp, pp) :
        m \in { "", "cohere.command-r" }, msgs \in Conversations,
        mt \in { -1, 0, 50 }, t \in { 0, 70 }, p \in { 0, 90 },
        fp \in { 0, -50 }, pp \in { 0, 150 } }

Transform ==
    Apply("ToOracleCloudRequest",
          ToOracleCloudRequest(call.in.config, call.in.openAIReq))

\* One function is about to be called with one input.
PureInit ==
    /\ InitAuthenticator
    /\ \/ \E url \in DOMAIN Documents : \E resp \in EndpointResponses(url) :
             call = Call("fetchMetadataEndpoint", [url |-> url, resp |-> resp])
       \/ \E keyPem \in AllKeyPems : call = Call("parsePrivateKey", keyPem)
       \/ \E certPem \in AllCertPems :
             call = Call("extractKeyIDAndExpiration", certPem)
       \/ \E cfg \in Configs : call = Call("New", cfg)
       \/ \E config \in TransformerConfigs :
          \E openAIReq \in ChatCompletionRequests :
             call = Call("ToOracleCloudRequest",
                         [config |-> config, openAIReq |-> openAIReq])

PureNext ==
    \/ FetchMetadataEndpoint
    \/ ParsePrivateKey
    \/ ExtractKeyIDAndExpiration
    \/ NewProxy
    \/ Transform

PureSpec == PureInit /\ [][PureNext]_vars

\* ------------------------------------------------------------------- claims
FailureExits == { "fetch_error", "key_error", "cert_error" }

\* C1: the callers of a batch (calls that overlap, all earlier calls having
\* returned before) that all called getCredentials while the cache was not
\* Fresh, were all answered, and stored only expiries that lie after the end
\* of their calls, performed exactly one refresh between them and all
\* returned the same (privateKey, keyID).
C1_OneRefresh ==
    ( /\ batch # {}
      /\ \A c \in batch : /\ pc[c] = "done"
                          /\ ~hist[c].invokedFresh
                          /\ ~result[c].err
                          /\ hist[c].fetched => hist[c].expiry > now )
    => /\ Cardinality({ c \in batch : hist[c].fetched }) = 1
       /\ \A c, d \in batch : result[c] = result[d]

\* Two overlapping calls found the cache Stale; one refreshed it and the
\* other returned the refreshed pair from the double check.
C1_Witness ==
    \E c, d \in Callers :
        /\ c # d /\ batch = {c, d} /\ pc[c] = "done" /\ pc[d] = "done"
        /\ ~hist[c].invokedFresh /\ ~hist[d].invokedFresh
        /\ hist[c].invokedVer # 0 /\ hist[d].invokedVer # 0
        /\ hist[c].via = "refresh" /\ hist[d].via = "check2"
        /\ hist[c].expiry > now
        /\ result[c] = result[d] /\ ~result[c].err

\* C2: at most one caller is in the refresh section; it holds the exclusive
\* lock, and no other caller is past the lock (in either check or in the
\* refresh) while it is there.
C2_SingleRefresher ==
    \A c \in Callers :
        pc[c] = "refresh"
        => /\ writer = c
           /\ readers = {}
           /\ \A d \in Callers \ {c} : pc[d] \notin { "check1", "check2", "refresh" }

\* One caller refreshes while another, which found the cache not Fresh,
\* waits for the exclusive lock.
C2_Witness ==
    \E c, d \in Callers : c # d /\ pc[c] = "refresh" /\ pc[d] = "lock"

\* C3: every key getCredentials returns belongs to a certificate whose
\* NotAfter is later than the time of the return.
C3_NoExpiredKey ==
    lastRet.via \in { "check1", "check2", "refresh" }
    => lastRet.notAfter > lastRet.time

\* C4: the stored cache expiry is at most the certificate's NotAfter minus
\* the minimum buffer.
C4_ExpiryBeforeNotAfter ==
    ~cache.metadata.nil
    => cache.expiresAt <= cache.metadata.CertPem.notAfter - minCacheBuffer

\* C5: a refresh at time t of a certificate expiring at notAfter stores
\* notAfter - 1h when that is not earlier than t, and t + 30m otherwise.
C5_ExpiryRule ==
    lastRet.via = "refresh"
    => /\ lastRet.expiry =
             IF lastRet.notAfter - 4 >= lastRet.time
             THEN lastRet.notAfter - 4
             ELSE lastRet.time + 2
       /\ lastRet.time = now => cache.expiresAt = lastRet.expiry

\* A refresh of a certificate with less than an hour left took the
\* minimum-buffer branch, after an earlier refresh of the certificate
\* expiring last had stored its NotAfter minus the default buffer.
C5_Witness ==
    /\ lastRet.via = "refresh"
    /\ lastRet.notAfter > lastRet.time
    /\ lastRet.notAfter - defaultCacheBuffer < lastRet.time
    /\ lastRet.expiry = lastRet.time + minCacheBuffer
    /\ \E c \in Done : /\ c # lastRet.caller
                       /\ hist[c].via = "refresh"
                       /\ hist[c].expiry = MaxNotAfter - defaultCacheBuffer
                       /\ hist[c].expiry <= lastRet.time

\* C6: the expiry a refresh stores is later than the time of the refresh.
C6_UsableAfterRefresh ==
    lastRet.via = "refresh" => lastRet.expiry > lastRet.time

\* What a step out of either check does: the cached pair, without a fetch,
\* exactly when the metadata is present and the time is before expiresAt;
\* otherwise the first check goes on to the exclusive lock and the second to
\* the refresh.
C7_Step ==
    \A c \in Callers :
        /\ (pc[c] = "check1" /\ pc'[c] # "check1")
           => IF ~cache.metadata.nil /\ now < cache.expiresAt
              THEN /\ pc'[c] = "done"
                   /\ result'[c] = Ok(cache.privateKey, cache.keyID)
                   /\ fetchCount' = fetchCount
              ELSE pc'[c] = "lock"
        /\ (pc[c] = "check2" /\ pc'[c] # "check2")
           => IF ~cache.metadata.nil /\ now < cache.expiresAt
              THEN /\ pc'[c] = "done"
                   /\ result'[c] = Ok(cache.privateKey, cache.keyID)
                   /\ fetchCount' = fetchCount
              ELSE pc'[c] = "refresh"

\* C7: every step that leaves a check obeys the freshness predicate: the
\* cached pair is returned without a fetch iff the metadata is present and
\* now < expiresAt, the boundary now = expiresAt counting as not Fresh.
C7_FreshnessPredicate == [][C7_Step]_vars

\* A call was served by the first check, and another missed both checks at
\* the boundary now = expiresAt.
C7_Witness ==
    \E c, d \in Callers :
        /\ pc[c] = "refresh" /\ ~cache.metadata.nil /\ now = cache.expiresAt
        /\ hist[c].invokedVer = cache.privateKey.ptr
        /\ pc[d] = "done" /\ hist[d].via = "check1"

\* The call was made and returned while one and the same entry was Fresh.
WhileFresh(c) ==
    /\ hist[c].invokedFresh
    /\ hist[c].retFresh
    /\ hist[c].invokedVer = hist[c].retVer

\* C8: two calls made while the cache is Fresh (with the same entry), one
\* after the other or not, request nothing from the metadata service, write
\* no cache field and return the same pair.
C8_Idempotent ==
    \A c, d \in Done :
        ( /\ WhileFresh(c) /\ WhileFresh(d)
          /\ hist[c].invokedVer = hist[d].invokedVer )
        => /\ ~hist[c].fetched /\ ~hist[d].fetched
           /\ ~hist[c].wrote /\ ~hist[d].wrote
           /\ ~result[c].err
           /\ result[c] = result[d]

\* Two consecutive calls on a Fresh cache: the second was made when the
\* first had returned.
C8_Witness ==
    \E c, d \in Done :
        /\ c # d /\ batch = {d}
        /\ WhileFresh(c) /\ WhileFresh(d)
        /\ hist[c].invokedVer = hist[d].invokedVer
        /\ result[c] = result[d]

\* C9: a call whose refresh fails in any step returns the error result and
\* writes no cache field; an error is returned in no other case.
C9_AllOrNothing ==
    \A c \in Done :
        /\ hist[c].via \in FailureExits
           => /\ result[c] = Failed
              /\ ~hist[c].wrote
        /\ result[c].err => hist[c].via \in FailureExits

\* A certificate that does not parse failed the refresh of a Stale cache.
C9_Witness ==
    \E c \in Done :
        /\ hist[c].via = "cert_error"
        /\ hist[c].retVer # 0 /\ ~hist[c].retFresh
        /\ result[c] = Failed

\* C10 as stated: a caller that waited for the exclusive lock while a refresh
\* failed returns an error and requests nothing itself.
C10_WaitersFail ==
    \A c \in Done : hist[c].sawFailure => result[c].err /\ ~hist[c].fetched

\* C10 amended: a caller that waited while a refresh failed checks again once
\* it has the lock; it returns the cached pair if the cache is Fresh by then,
\* and otherwise runs its own refresh and fails only if that one fails.
C10_WaitersRetry ==
    \A c \in Done :
        hist[c].sawFailure
        => IF hist[c].retFresh
           THEN hist[c].via = "check2" /\ ~hist[c].fetched /\ ~result[c].err
           ELSE /\ hist[c].fetched
                /\ result[c].err <=> hist[c].via \in FailureExits

\* A caller waited while a refresh failed, then refreshed the cache itself
\* and returned credentials.
C10_Witness ==
    \E c \in Done :
        /\ hist[c].sawFailure
        /\ hist[c].via = "refresh"
        /\ ~result[c].err

\* C11: no negative caching. A call made alone, after an earlier call had
\* failed and while the cache is not Fresh, runs a refresh; if the metadata
\* service answers that refresh with valid credentials the call succeeds and
\* leaves the cache Fresh.
C11_NoNegativeCaching ==
    \A c, d \in Done :
        ( /\ c \notin batch /\ result[c].err
          /\ batch = {d} /\ ~hist[d].invokedFresh )
        => /\ hist[d].fetched
           /\ hist[d].via = "refresh"
              => /\ ~result[d].err
                 /\ lastRet.caller = d
                 /\ Usable(cache, lastRet.time)

\* C12: a caller that has returned from getCredentials, by whichever exit,
\* holds neither the shared nor the exclusive lock.
C12_LocksReleased ==
    \A c \in Done : c \notin readers /\ writer # c

\* Three calls have returned, one from a failed fetch, one from a successful
\* refresh and one from a hit of the double check, and the lock is free.
C12_Witness ==
    \E c, d, e \in Done :
        /\ hist[c].via = "fetch_error"
        /\ hist[d].via = "refresh"
        /\ hist[e].via = "check2"
        /\ writer = NoCaller /\ readers = {}

\* C13: no races on the cache. No caller is about to read a cache field
\* while another caller is about to write one: reads are made under the
\* shared or the exclusive lock and writes under the exclusive lock.
C13_NoRaces ==
    \A c, d \in Callers :
        c # d => ~(pc[c] \in WritePositions /\ pc[d] \in ReadPositions)

\* C14: after signRequest has returned successfully the request's Date
\* header is the date of the signing string that was signed.
C14_DateAgrees ==
    (sign.pc = "returned" /\ sign.err = "") => req.Header.Date = sign.date

\* The number of line breaks in a text.
RECURSIVE LineBreaks(_)
LineBreaks(text) ==
    IF text = << >> THEN 0
    ELSE (IF Head(text) = "\n" THEN 1 ELSE 0) + LineBreaks(Tail(text))

\* C15: the signing string is three lines joined by single line breaks, with
\* none at the end: the request target (lower-cased method, path, and
\* ?query iff the raw query is not empty), the host (the request's Host, or
\* the URL's when that is empty) and the date.
C15_ThreeLines ==
    sign.pc = "sign"
    => /\ LineBreaks(sign.signingString) = 2
       /\ sign.signingString[Len(sign.signingString)] # "\n"
       /\ Join(sign.signingString) =
              "(request-target): post " \o Join(orig.Path)
              \o (IF orig.RawQuery # "" THEN "?" \o orig.RawQuery ELSE "")
              \o "\n" \o "host: "
              \o (IF orig.Host # "" THEN orig.Host ELSE orig.URLHost)
              \o "\n" \o "date: " \o sign.date

\* C16: when buildSigningString has run, a Date header the request came with
\* is the date of the signing string and is still the request's Date header;
\* without one the date is the wall-clock time of the call, cut to the
\* second, and is both in the signing string and in the Date header. Nothing
\* else of the request has changed.
C16_DateHandling ==
    sign.pc = "sign"
    => /\ sign.date = IF orig.Header.Date # ""
                      THEN orig.Header.Date
                      ELSE HTTPDate(sign.builtAt)
       /\ req.Header.Date = sign.date
       /\ req = [orig EXCEPT !.Header.Date = sign.date]
       /\ sign.signingString[Len(sign.signingString) - 1] = "date: "
       /\ sign.signingString[Len(sign.signingString)] = sign.date

\* buildSigningString generated the date of a request that came without
\* one, a second or more after the start, and time has passed since.
C16_Witness ==
    /\ sign.pc = "sign"
    /\ orig.Header.Date = ""
    /\ sign.builtAt >= 2
    /\ wall > sign.builtAt
    /\ req.Header.Date = HTTPDate(sign.builtAt)

\* C17: after a successful signRequest the Authorization header is the
\* fixed template around the supplied keyID and the encoded signature,
\* whatever it was before, and the Date header is not empty.
C17_AuthorizationHeader ==
    (sign.pc = "returned" /\ sign.err = "")
    => /\ req.Header.Authorization =
              "Signature version=\"1\",keyId=\"" \o sign.keyID
              \o "\",algorithm=\"rsa-sha256\",headers=\"(request-target) host date\""
              \o ",signature=\""
              \o EncodeToString(
                     SignPKCS1v15(sign.privateKey,
                                  Sum256(Join(sign.signingString))).signature)
              \o "\""
       /\ req.Header.Date # ""

\* A request that came with a client's Authorization header was signed with
\* the key ID of the certificate's uniqueIdentifier.
C17_Witness ==
    /\ sign.pc = "returned" /\ sign.err = ""
    /\ orig.Header.Authorization = "Bearer sk-client"
    /\ sign.keyID = "ocid1.instance.a"
    /\ req.Header.Authorization # orig.Header.Authorization

\* C18: SignRequest changes nothing of the request but the Authorization
\* and the Date header, and nothing at all when getCredentials fails.
C18_Frame ==
    /\ [req EXCEPT !.Header.Authorization = "", !.Header.Date = ""]
       = [orig EXCEPT !.Header.Authorization = "", !.Header.Date = ""]
    /\ sign.err = "failed to get credentials" => req = orig

\* A second SignRequest call has returned, with both headers of its request
\* set anew.
C18_Witness ==
    /\ sign.pc = "returned" /\ sign.calls = 2 /\ sign.err = ""
    /\ req.Header.Date # orig.Header.Date
    /\ req.Header.Authorization # orig.Header.Authorization

\* The state of the cache at time t: Empty without a bundle, Fresh with one
\* before its expiry, Stale with one from its expiry on.
CacheState(c, t) ==
    IF c.metadata.nil THEN "Empty"
    ELSE IF t < c.expiresAt THEN "Fresh" ELSE "Stale"

\* A step changes the state of the cache only from Empty or Stale to Fresh,
\* by a refresh that succeeds, or from Fresh to Stale, by time passing; a
\* refresh that fails changes no cache field.
C19_Step ==
    /\ CacheState(cache, now) # CacheState(cache', now')
       => \/ /\ CacheState(cache, now) \in { "Empty", "Stale" }
             /\ CacheState(cache', now') = "Fresh"
             /\ \E c \in Callers :
                   pc[c] = "refresh" /\ pc'[c] = "done" /\ ~result'[c].err
          \/ /\ CacheState(cache, now) = "Fresh"
             /\ CacheState(cache', now') = "Stale"
             /\ now' > now /\ cache' = cache
    /\ \A c \in Callers :
          (pc[c] = "refresh" /\ pc'[c] = "done" /\ result'[c].err) => cache' = cache

\* C19: the cache starts Empty and changes state only by Empty -> Fresh and
\* Stale -> Fresh (a successful refresh) and Fresh -> Stale (time passing);
\* a failed refresh leaves it as it was.
C19_StateMachine ==
    CacheState(cache, now) = "Empty" /\ [][C19_Step]_vars

\* A step that requests metadata is the refresh of a call that found the
\* cache not Fresh.
C20_Step ==
    fetchCount' # fetchCount
    => \E c \in Callers :
          /\ pc[c] = "refresh" /\ pc'[c] = "done"
          /\ hist'[c].fetched
          /\ ~(~cache.metadata.nil /\ now < cache.expiresAt)

\* C20: lazy population. Until the first call nothing has been requested and
\* the cache is Empty, and metadata is requested only inside a getCredentials
\* call that found the cache not Fresh.
C20_LazyPopulation ==
    /\ []((\A c \in Callers : pc[c] = "idle")
          => fetchCount = 0 /\ cache = EmptyCache)
    /\ [][C20_Step]_vars

\* The first call has populated the Empty cache with one fetch, before any
\* other call was made.
C20_Witness ==
    /\ \E c \in Done : /\ hist[c].via = "refresh" /\ hist[c].invokedVer = 0
                       /\ \A d \in Callers \ {c} : pc[d] = "idle"
    /\ fetchCount = 1
    /\ ~cache.metadata.nil

\* The resources of a refresh, in the order of the claim.
C21_Resources == << "cert.pem", "intermediate.pem", "key.pem" >>

\* C21: a call that refreshed requested the certificate, the intermediate
\* certificate and the private key in this order, each at most once, up to
\* and including the first request the service did not serve; it failed in
\* the fetch exactly when there is such a request (the intermediate
\* certificate's included), and a call served from the cache requested
\* nothing.
C21_FetchOrder ==
    LET n == Len(lastRet.reqs)
    IN /\ lastRet.via \in { "check1", "check2", "" } => n = 0
       /\ lastRet.via \in FailureExits \cup { "refresh" }
          => /\ n \in 1..3
             /\ \A i \in 1..n :
                   /\ lastRet.reqs[i].req.URL = C21_Resources[i]
                   /\ i < n => lastRet.reqs[i].served
             /\ n < 3 => ~lastRet.reqs[n].served
             /\ lastRet.via = "fetch_error" <=> ~lastRet.reqs[n].served
             /\ lastRet.via = "fetch_error"
                => /\ result[lastRet.caller] = Failed
                   /\ hist[lastRet.caller].via = "fetch_error"

\* The certificate was served and the intermediate certificate was not: the
\* refresh failed without a request for the key.
C21_Witness ==
    /\ lastRet.via = "fetch_error"
    /\ Len(lastRet.reqs) = 2
    /\ lastRet.reqs[1].served /\ ~lastRet.reqs[2].served
    /\ lastRet.reqs[2].req.URL = "intermediate.pem"
    /\ result[lastRet.caller] = Failed

\* C22: fetchMetadataEndpoint returns an error and no body whenever the
\* connection fails, the status is not 200 or the body cannot be read; it
\* returns the body only for a 200 response read completely; every request
\* carries "Authorization: Bearer Oracle".
C22_ErrorOrBody ==
    call.fn = "fetchMetadataEndpoint" /\ call.done =>
        LET r == call.in.resp
            o == call.out.res
        IN /\ ~Served(r) => o.err /\ o.nil
           /\ ~o.nil => Served(r)
           /\ Served(r) => ~o.err /\ ~o.nil /\ o.body = r.body
           /\ call.out.req.Authorization = "Bearer Oracle"

\* C23: parsePrivateKey is an ordered fallback. Without a PEM block it
\* fails with the decode error and calls no parser; a key that parses as
\* PKCS#1 is returned and PKCS#8 is not tried; otherwise PKCS#8 is tried,
\* its failure is the unsupported-format error and a PKCS#8 key that is not
\* RSA is the non-RSA error; a valid PKCS#1 or PKCS#8 RSA key comes back
\* with its modulus; every input ends in a key or an error.
C23_OrderedFallback ==
    call.fn = "parsePrivateKey" /\ call.done =>
        LET k == call.in
            o == call.out
            pkcs1 == << "ParsePKCS1PrivateKey" >>
            both == << "ParsePKCS1PrivateKey", "ParsePKCS8PrivateKey" >>
        IN /\ ~k.pem => o.err = "failed to decode PEM block" /\ o.parsers = << >>
           /\ k.pem /\ k.enc = "pkcs1"
              => o.err = "" /\ o.key.N = k.N /\ o.parsers = pkcs1
           /\ k.pem /\ k.enc # "pkcs1" => o.parsers = both
           /\ k.pem /\ k.enc \notin { "pkcs1", "pkcs8" }
              => o.err = "failed to parse private key"
           /\ k.pem /\ k.enc = "pkcs8" /\ k.alg # "rsa"
              => o.err = "private key is not RSA"
           /\ k.pem /\ k.enc = "pkcs8" /\ k.alg = "rsa"
              => o.err = "" /\ o.key.N = k.N
           /\ o.err # "" <=> o.key = NilKey

\* A PKCS#8 RSA key with modulus 11 was parsed after PKCS#1 had failed.
C23_Witness ==
    /\ call.fn = "parsePrivateKey"
    /\ call.done
    /\ call.in = KeyPem(TRUE, "pkcs8", "rsa", 11)
    /\ call.out.err = ""
    /\ call.out.key.N = 11
    /\ Len(call.out.parsers) = 2

\* The places of the uniqueIdentifier attributes in a subject.
UIDs(names) == { i \in 1..Len(names) : names[i].type = OIDUniqueIdentifier }

C28_Prompt ==
    call.fn = "ToOracleCloudRequest" /\ call.done =>
        LET msgs == call.in.openAIReq.Messages
            o == call.out
        IN /\ msgs # << >> => o.ChatRequest.Message = msgs[Len(msgs)].Content
           /\ msgs = << >> => o.ChatRequest.Message = ""
           /\ o.ServingMode.ModelID = call.in.openAIReq.Model
           /\ o.CompartmentID = call.in.config.CompartmentID

\* The prompt is the assistant's message that ends a conversation of three.
C28_Witness ==
    /\ call.fn = "ToOracleCloudRequest"
    /\ call.done
    /\ Len(call.in.openAIReq.Messages) = 3
    /\ call.in.openAIReq.Messages[3].Role = "assistant"
    /\ call.out.ChatRequest.Message = "answer"
    /\ call.out.ServingMode.ModelID = "cohere.command-r"
    /\ call.out.CompartmentID = "ocid1.compartment.b"

\* C29: for maxTokens, temperature, topP, frequencyPenalty and
\* presencePenalty the output carries the request's value when it is not
\* zero and the configuration's value when it is zero; topK is always the
\* configuration's.
C29_Defaulting ==
    call.fn = "ToOracleCloudRequest" /\ call.done =>
        LET r == call.in.openAIReq
            c == call.in.config
            o == call.out.ChatRequest
            Params == { "MaxTokens", "Temperature", "TopP", "FrequencyPenalty",
                        "PresencePenalty" }
        IN /\ \A f \in Params :
                 /\ r[f] # 0 => o[f] = r[f]
                 /\ r[f] = 0 => o[f] = c[f]
           /\ o.TopK = c.TopK

\* A request with temperature 0 and topP 0.9 under a configuration with
\* temperature 0.5 and topP 0.5 came out with temperature 0.5 and topP 0.9.
C29_Witness ==
    /\ call.fn = "ToOracleCloudRequest"
    /\ call.done
    /\ call.in.config.Temperature = 50
    /\ call.in.openAIReq.Temperature = 0
    /\ call.in.openAIReq.TopP = 90
    /\ call.in.openAIReq.MaxTokens = -1
    /\ call.out.ChatRequest.Temperature = 50
    /\ call.out.ChatRequest.TopP = 90
    /\ call.out.ChatRequest.MaxTokens = -1
    /\ call.out.ChatRequest.TopK = 5

\* The request that came in is a POST to a path ending in
\* /chat/completions.
C25_Matches ==
    /\ Join(plugin.in.Method) = "POST"
    /\ plugin.in.Path # << >>
    /\ plugin.in.Path[Len(plugin.in.Path)] = "/chat/completions"

\* The number of metadata fetches and of SignRequest calls is what it was
\* when ServeHTTP was called.
C25_NothingSigned ==
    /\ fetchCount = plugin.entry.fetchCount
    /\ sign.calls = plugin.entry.signCalls

\* C25: ServeHTTP processes a request if and only if its method is POST and
\* its path ends with /chat/completions; every other request is passed to
\* the next handler exactly once with body and headers unchanged, is not
\* signed and causes no metadata request.
C25_RequestFilter ==
    plugin.calls > 0 =>
        /\ plugin.processed <=> C25_Matches
        /\ ~C25_Matches
           => /\ plugin.pc = "done"
              /\ plugin.next = << plugin.in >>
              /\ req = plugin.in
              /\ plugin.rw = NoResponse
              /\ C25_NothingSigned

\* A GET of /v1/chat/completions went to the next handler as it came,
\* after an earlier request had been signed.
C25_Witness ==
    /\ plugin.calls = 2
    /\ plugin.pc = "done"
    /\ plugin.in.Method = GET
    /\ plugin.in.Path = << "/v1", "/chat/completions" >>
    /\ plugin.in.Body.kind = "object"
    /\ ~plugin.processed
    /\ plugin.next = << plugin.in >>
    /\ sign.calls = 1
    /\ fetchCount = 1

\* C26: a POST to a path ending in /chat/completions whose body is empty
\* or is not valid JSON is answered with status 400; the next handler is
\* not called, no signing is attempted and no metadata is fetched.
C26_BadRequest ==
    (/\ plugin.calls > 0
     /\ C25_Matches
     /\ plugin.in.Body.kind \in { "empty", "text" }
     /\ plugin.in.Body.readOk
     /\ plugin.in.Body.closeOk)
    => /\ plugin.pc = "done"
       /\ plugin.rw.status = 400
       /\ plugin.next = << >>
       /\ C25_NothingSigned

\* An empty body was answered with 400 and both error messages.
C26_Witness ==
    /\ plugin.calls = 1
    /\ plugin.pc = "done"
    /\ C25_Matches
    /\ plugin.in.Body.kind = "empty"
    /\ plugin.rw.status = 400
    /\ Len(plugin.rw.body) = 2
    /\ plugin.next = << >>
    /\ fetchCount = 0

\* The calls that returned the credentials their own refresh stored.
C30_Refreshers == { d \in Done : hist[d].via = "refresh" /\ ~result[d].err }

\* Every pair handed out, and the pair in the cache, is the pair of one
\* refresh; refreshes differ in their key objects, and one key object
\* never comes with two key IDs; nobody reads the pair under the shared
\* lock while a refresh holds the exclusive one.
C30_Pairs ==
    /\ writer # NoCaller => readers = {}
    /\ \A c \in Done :
          (~result[c].err /\ hist[c].via \in { "check1", "check2" })
          => \E d \in C30_Refreshers : result[d] = result[c]
    /\ ~cache.metadata.nil
       => \E d \in C30_Refreshers :
             /\ result[d].privateKey = cache.privateKey
             /\ result[d].keyID = cache.keyID
    /\ \A c, d \in C30_Refreshers :
          c # d => result[c].privateKey.ptr # result[d].privateKey.ptr
    /\ \A c, d \in Done :
          (/\ ~result[c].err
           /\ ~result[d].err
           /\ result[c].privateKey.ptr = result[d].privateKey.ptr)
          => result[c] = result[d]

\* A call returns the pair the cache holds after its returning step, and
\* what a call has returned stays as it is.
C30_Step ==
    \A c \in Callers :
        /\ (pc[c] # "done" /\ pc'[c] = "done" /\ ~result'[c].err)
           => result'[c] = Ok(cache'.privateKey, cache'.keyID)
        /\ pc[c] = "done" => pc'[c] = "done" /\ result'[c] = result[c]

\* C30: under any interleaving, the (privateKey, keyID) pair a
\* getCredentials call returns was stored together by one refresh: no
\* caller gets the key of one refresh with the key ID of another, and a
\* pair handed out is not altered by a later refresh.
C30_PairIntegrity == []C30_Pairs /\ [][C30_Step]_vars

\* Two callers hold the pair of the first refresh after a later refresh
\* has put a pair with another key ID into the cache.
C30_Witness ==
    /\ Done = Callers
    /\ hist[1].via = "refresh"
    /\ hist[2].via \in { "check1", "check2" }
    /\ hist[3].via = "refresh"
    /\ result[2] = result[1]
    /\ ~result[1].err
    /\ result[1].keyID = "ocid1.instance.a"
    /\ result[3].keyID = "42"
    /\ cache.keyID = "42"
    /\ cache.privateKey = result[3].privateKey
    /\ cache.privateKey.ptr # result[1].privateKey.ptr

\* C31: with the signer that goes through the key provider, the private key
\* and the key ID used for the signing of one request come from the same
\* credential bundle, also when the cache is refreshed between the two calls.
C31_SameBundle ==
    (sign.pc = "returned" /\ sign.calls > 0 /\ sign.err = "")
        => sign.keyOf = sign.keyIDOf

\* C32: a Stale bundle is never served as a fallback. A call whose refresh
\* fails returns an error with a nil key and an empty key ID; a call returns
\* credentials only from a cache that was Fresh at one of its two checks, or
\* from its own successful refresh, and never the key of a bundle that was
\* Stale when it returned.
C32_NoStaleFallback ==
    \A c \in Done :
        /\ hist[c].via \in FailureExits
           => /\ result[c].err
              /\ result[c].privateKey = NilKey
              /\ result[c].keyID = ""
        /\ ~result[c].err
           => \/ /\ hist[c].via \in { "check1", "check2" }
                 /\ hist[c].retFresh
                 /\ result[c].privateKey.ptr = hist[c].retVer
              \/ /\ hist[c].via = "refresh"
                 /\ hist[c].fetched
                 /\ result[c].privateKey.ptr # hist[c].retVer
        /\ (hist[c].retVer # 0 /\ ~hist[c].retFresh)
           => result[c].privateKey.ptr # hist[c].retVer

\* A refresh of a Stale cache failed at the metadata service: the call
\* returned the error and the Stale bundle is still in the cache.
C32_Witness ==
    \E c \in Done :
        /\ hist[c].via = "fetch_error"
        /\ hist[c].retVer # 0 /\ ~hist[c].retFresh
        /\ cache.privateKey.ptr = hist[c].retVer
        /\ result[c] = Failed

\* C33: the cache is well formed. Whenever the cached metadata is present,
\* the cached private key is present and the cached key ID is not empty; and
\* metadata that is present is never absent again.
C33_WellFormed ==
    /\ [](~cache.metadata.nil
          => /\ cache.privateKey # NilKey
             /\ cache.privateKey.ptr # 0
             /\ cache.keyID # "")
    /\ [][~cache.metadata.nil => ~cache'.metadata.nil]_vars

\* The cache holds a bundle whose key ID is the certificate's serial number,
\* and a later refresh of it failed and left it in place.
C33_Witness ==
    /\ ~cache.metadata.nil
    /\ cache.keyID = "42"
    /\ cache.privateKey.ptr # 0
    /\ \E c \in Done :
          /\ hist[c].via \in FailureExits
          /\ hist[c].retVer = cache.privateKey.ptr

\* C34: no caller requests the exclusive lock while it holds the shared
\* lock, no caller holds both locks, and with fair lock acquisition and
\* metadata requests that return every getCredentials call returns.
C34_Termination ==
    /\ [](\A c \in Callers :
            /\ pc[c] \in { "lock", "check2", "refresh" } => c \notin readers
            /\ writer = c => c \notin readers)
    /\ \A c \in Callers : (pc[c] = "rlock") ~> (pc[c] = "done")

\* All callers have returned, and one of them had queued for the exclusive
\* lock while another held it and failed its refresh.
C34_Witness ==
    /\ Done = Callers
    /\ \E c \in Callers : hist[c].sawFailure /\ hist[c].fetched

\* C35: ServeHTTP writes at most one error response per request. A processed
\* request that failed was answered with one status and one error body,
\* written once.
C35_OneErrorResponse ==
    (plugin.pc = "done" /\ plugin.processed /\ plugin.next = << >>)
        => /\ plugin.rw.status # 0
           /\ Len(plugin.rw.body) = 1

\* C36: when SignRequest fails for a processed request, because the
\* credentials cannot be obtained or the signature cannot be produced,
\* ServeHTTP answers with status 500 and does not call the next handler; the
\* next handler gets a processed request only after SignRequest has returned
\* without error.
C36_SigningFailure ==
    plugin.processed =>
        /\ (/\ plugin.pc = "done"
            /\ sign.calls = plugin.entry.signCalls + 1
            /\ sign.err # "")
           => /\ plugin.rw.status = 500
              /\ plugin.rw.body = << "failed to authenticate request: " \o sign.err >>
              /\ plugin.next = << >>
        /\ plugin.next # << >>
           => /\ plugin.pc = "done"
              /\ sign.calls = plugin.entry.signCalls + 1
              /\ sign.pc = "returned"
              /\ sign.err = ""
              /\ plugin.rw = NoResponse
        /\ plugin.pc = "signing" => plugin.next = << >>

\* The key the metadata service served is too small to sign with: the
\* request was answered with 500 and went nowhere.
C36_Witness ==
    /\ plugin.pc = "done"
    /\ plugin.processed
    /\ sign.calls = plugin.entry.signCalls + 1
    /\ sign.err = "failed to sign request"
    /\ sign.privateKey.N < MinModulus
    /\ plugin.rw.status = 500
    /\ plugin.next = << >>

\* The request being served has the transformed body: the JSON of the
\* Oracle Cloud request made from the body that came in, with its exact
\* length as ContentLength and Content-Type application/json.
C37_Replaced(r) ==
    LET u == Unmarshal(plugin.in.Body)
        oracleBody == Marshal(ToOracleCloudRequest(Proxy.transformer, u.value))
    IN /\ ~u.err
       /\ r.Body = oracleBody
       /\ r.Body.kind = "object"
       /\ r.ContentLength = oracleBody.len
       /\ r.Header.ContentType = "application/json"

\* From the call of SignRequest on, the request has the transformed body;
\* the next handler has it only when SignRequest has returned without error,
\* and then with the headers the signing added.
C37_Ordered ==
    (plugin.processed /\ sign.calls = plugin.entry.signCalls + 1)
    => /\ C37_Replaced(req)
       /\ C37_Replaced(orig)
       /\ plugin.next # << >>
          => /\ plugin.next = << req >>
             /\ sign.pc = "returned" /\ sign.err = ""
             /\ req.Header.Authorization # plugin.in.Header.Authorization
             /\ req.Header.Date # ""

\* SignRequest is called with the transformed request; the next handler is
\* called in a step that follows the return of SignRequest, with the signed
\* request, and not again while the same request is served.
C37_Step ==
    /\ sign'.calls # sign.calls
       => /\ plugin'.pc = "signing"
          /\ plugin'.next = << >>
          /\ C37_Replaced(req)'
    /\ (plugin'.processed /\ plugin'.next # << >> /\ plugin'.next # plugin.next)
       => /\ plugin.pc = "signing" /\ plugin.next = << >>
          /\ sign.pc = "returned" /\ sign.err = ""
          /\ plugin'.next = << req >>
          /\ req' = req
    /\ (plugin.processed /\ plugin.next # << >> /\ plugin'.calls = plugin.calls)
       => plugin' = plugin

\* C37: on the success path of a processed request the body is replaced by
\* the transformed JSON, ContentLength is set to the exact length of the new
\* body and Content-Type to application/json, then the request is signed,
\* and only then is the next handler called, exactly once; the request is
\* never signed before its body is replaced.
C37_SuccessOrder ==
    /\ []C37_Ordered
    /\ [][C37_Step]_vars

\* A chat completion request of 80 bytes went to the next handler with the
\* transformed body of 300 bytes, signed.
C37_Witness ==
    /\ plugin.pc = "done"
    /\ plugin.processed
    /\ plugin.in.Body.kind = "object"
    /\ plugin.in.Body.len = 80
    /\ plugin.in.Header.ContentType = "text/plain"
    /\ plugin.next = << req >>
    /\ req.ContentLength = 300
    /\ req.Header.ContentType = "application/json"
    /\ sign.pc = "returned" /\ sign.err = ""
    /\ req.Header.Authorization # plugin.in.Header.Authorization

====
